---------------------------- MODULE Spec2Model ----------------------------
(***************************************************************************)
(* Guardian chatbot: the per-turn router of app.py (local retrieval, web   *)
(* search, answer synthesis) together with the session state the Streamlit *)
(* script keeps between its runs.                                          *)
(*                                                                         *)
(* Strings that the code takes apart character by character (the prompt)   *)
(* are sequences of one-character strings.  Strings that the code only     *)
(* measures, trims, joins and tests for emptiness (contexts) are sequences *)
(* of pieces [s, n, ws]: a literal s of n characters that is either all    *)
(* whitespace or neither starts nor ends with it.  Answers are strings.    *)
(***************************************************************************)
EXTENDS Integers, Sequences, FiniteSets, TLC

VARIABLES
    secrets,                    \* where the search API key can come from
    startup,                    \* how the first script run's setup ended
    phase,                      \* "new" | "halted" | "running"
    faiss_index, document_chunks, embeddings_model, llm_model, serper_api_key,
    uploaded_faiss_index, uploaded_document_chunks,
    uploaded_file_name, uploaded_file_hash,
    messages, current_page,
    widget_file,                \* the file the uploader widget holds
    setup_runs,                 \* times setup_backend has been entered
    turn                        \* the chat turn made by the latest script run

vars == <<secrets, startup, phase, faiss_index, document_chunks, embeddings_model,
          llm_model, serper_api_key, uploaded_faiss_index,
          uploaded_document_chunks, uploaded_file_name, uploaded_file_hash,
          messages, current_page, widget_file, setup_runs, turn>>

---------------------------------------------------------------------------
(* Bounds of the model *)

MaxMessages == 2       \* messages kept in the transcript before a clear
MaxOrganic == 2        \* organic results in one search response
MaxCorpus == 4         \* chunks in a corpus retrieval is tried on

---------------------------------------------------------------------------
(* Characters and prompts *)

UpperLetters == <<"A","B","C","D","E","F","G","H","I","J","K","L","M",
                  "N","O","P","Q","R","S","T","U","V","W","X","Y","Z">>
LowerLetters == <<"a","b","c","d","e","f","g","h","i","j","k","l","m",
                  "n","o","p","q","r","s","t","u","v","w","x","y","z">>

Range(f) == {f[i] : i \in DOMAIN f}

Characters == Range(UpperLetters) \cup Range(LowerLetters) \cup {" ", "?"}

\* the lower-case form of every character
LowerChar ==
    [c \in Characters |->
        IF c \in Range(UpperLetters)
        THEN LowerLetters[CHOOSE i \in DOMAIN UpperLetters : UpperLetters[i] = c]
        ELSE c]

\* str.lower()
Lower(str) == [i \in DOMAIN str |-> LowerChar[str[i]]]

\* `kw in str` for Python strings: kw occurs as a contiguous substring
Contains(str, kw) ==
    \E i \in 0..(Len(str) - Len(kw)) :
        \A j \in 1..Len(kw) : str[i + j] = kw[j]

SearchKeywords ==
    { <<"s","e","a","r","c","h">>,
      <<"f","i","n","d">>,
      <<"w","h","o"," ","i","s">>,
      <<"w","h","a","t"," ","i","s">>,
      <<"t","e","l","l"," ","m","e"," ","a","b","o","u","t">> }

DomainKeywords ==
    { <<"f","r","a","u","d">>,
      <<"s","e","c","u","r","i","t","y">>,
      <<"t","r","a","n","s","a","c","t","i","o","n">>,
      <<"p","h","i","s","h","i","n","g">>,
      <<"i","d","e","n","t","i","t","y"," ","t","h","e","f","t">>,
      <<"a","c","c","o","u","n","t"," ","t","a","k","e","o","v","e","r">>,
      <<"b","n","p","l">> }

\* app.py:280
IsSearchQuery(prompt) ==
    LET lowered == Lower(prompt)
    IN \E keyword \in SearchKeywords : Contains(lowered, keyword)

\* the second test of app.py:285
HasDomainKeyword(prompt) ==
    LET lowered == Lower(prompt)
    IN \E kw \in DomainKeywords : Contains(lowered, kw)

\* the rule with the domain keywords looked up in the prompt as typed
Route_CaseSensitiveDomain(prompt) ==
    IF IsSearchQuery(prompt) /\ ~(\E kw \in DomainKeywords : Contains(prompt, kw))
    THEN "WebFirst" ELSE "LocalFirst"

\* the branch taken at app.py:285
Route(prompt) ==
    IF IsSearchQuery(prompt) /\ ~HasDomainKeyword(prompt)
    THEN "WebFirst" ELSE "LocalFirst"

\* prompts typed into the chat input
WhatIsPhishing ==
    <<"w","h","a","t"," ","i","s"," ","p","h","i","s","h","i","n","g">>
WhoIsThePresident ==
    <<"w","h","o"," ","i","s"," ","t","h","e"," ","p","r","e","s","i","d","e","n","t">>
WhatIsBNPL == <<"W","h","a","t"," ","I","s"," ","B","N","P","L","?">>

Prompts == {WhatIsPhishing, WhoIsThePresident, WhatIsBNPL}

PromptHeads ==
    { <<>>,
      <<"w","h","o"," ","i","s"," ">>,
      <<"W","h","a","t"," ","I","s"," ">>,
      <<"w","h","a","t","i","s"," ">>,
      <<"p","l","e","a","s","e"," ","F","I","N","D"," ">>,
      <<"r","e","s","e","a","r","c","h"," ">>,
      <<"t","e","l","l"," ","m","e"," ","a","b","o","u","t"," ">> }

PromptTails ==
    { <<"t","h","e"," ","p","r","e","s","i","d","e","n","t">>,
      <<"p","h","i","s","h","i","n","g">>,
      <<"B","N","P","L","?">>,
      <<"c","a","t","s">>,
      <<"I","d","e","n","t","i","t","y"," ","T","h","e","f","t">>,
      <<"i","d","e","n","t","i","t","y"," "," ","t","h","e","f","t">>,
      <<"m","y"," ","t","r","a","n","s","a","c","t","i","o","n","s">>,
      <<"a","n","t","i","f","r","a","u","d">> }

\* prompts the routing rule is tried on
RoutePrompts == {head \o tail : head \in PromptHeads, tail \in PromptTails}

\* the route of each prompt, worked out once
RouteOf == [p \in Prompts \cup RoutePrompts |-> Route(p)]

---------------------------------------------------------------------------
(* Texts: sequences of pieces *)

Word(s, n) == [s |-> s, n |-> n, ws |-> FALSE]
Blank(s, n) == [s |-> s, n |-> n, ws |-> TRUE]

Lit(s, n) == <<Word(s, n)>>
EmptyText == <<>>

RECURSIVE TextLen(_)
\* len(text)
TextLen(t) == IF t = <<>> THEN 0 ELSE Head(t).n + TextLen(Tail(t))

RECURSIVE LStrip(_)
\* text.lstrip()
LStrip(t) == IF t # <<>> /\ Head(t).ws THEN LStrip(Tail(t)) ELSE t

RECURSIVE RStrip(_)
\* text.rstrip()
RStrip(t) ==
    IF t # <<>> /\ t[Len(t)].ws THEN RStrip(SubSeq(t, 1, Len(t) - 1)) ELSE t

\* text.strip()
Strip(t) == RStrip(LStrip(t))

\* bool(text)
Truthy(t) == t # <<>>

RECURSIVE Join(_, _)
\* sep.join(texts)
Join(sep, texts) ==
    IF texts = <<>> THEN <<>>
    ELSE IF Len(texts) = 1 THEN texts[1]
    ELSE texts[1] \o sep \o Join(sep, Tail(texts))

---------------------------------------------------------------------------
(* config/api_keys.py *)

\* st.secrets[...] raises KeyError when the entry is absent; the except
\* branch then reads the environment variable, defaulting to "".
GetSerperApiKey(sec) ==
    IF sec.secret # "absent" THEN sec.secret
    ELSE IF sec.env # "absent" THEN sec.env
    ELSE ""

SecretsConfigs ==
    { [secret |-> "absent", env |-> "absent"],
      [secret |-> "absent", env |-> "env-key"],
      [secret |-> "",       env |-> "env-key"],
      [secret |-> "secret-key", env |-> "absent"] }

---------------------------------------------------------------------------
(* utils/web_search.py *)

NotConfigured == Lit("Search functionality is not configured.", 39)
NoWebInfo == Lit("No relevant information found on the web.", 41)
SearchError == Lit("An error occurred during web search: {e}", 40)

\* dict.get(field, default) on one organic result
FieldOr(v, default) == IF v = "absent" THEN default ELSE v

FieldLen(v) ==
    CASE v = "No Title" -> 8
      [] v = "No Snippet" -> 10
      [] v = "No Link" -> 7
      [] OTHER -> 2

\* f"Result {i+1}:\nTitle: {title}\nSnippet: {snippet}\nLink: {link}\n"
FormatResult(i, result) ==
    LET title == FieldOr(result.title, "No Title")
        snippet == FieldOr(result.snippet, "No Snippet")
        link == FieldOr(result.link, "No Link")
    IN << [s |-> "Result", n |-> 34 + FieldLen(title) + FieldLen(snippet) + FieldLen(link),
           ws |-> FALSE, i |-> i, title |-> title, snippet |-> snippet, link |-> link],
          Blank("\n", 1) >>

\* the j-th organic result the search service sends
OrganicResult(j) ==
    [title |-> IF j % 2 = 0 THEN "absent" ELSE "T1",
     snippet |-> IF j % 3 = 0 THEN "absent" ELSE "S1",
     link |-> IF j = 4 THEN "absent" ELSE "L1"]

\* What the POST can come back with: a RequestException (no connection,
\* timeout, non-2xx status), or a JSON body with or without 'organic'.
HttpOutcomes ==
    { [status |-> "error", has_organic |-> FALSE, organic |-> <<>>],
      [status |-> "ok", has_organic |-> FALSE, organic |-> <<>>] }
    \cup { [status |-> "ok", has_organic |-> TRUE,
            organic |-> [j \in 1..m |-> OrganicResult(j)]] : m \in 0..MaxOrganic }

NumResults == 3

\* "\n".join(results_text) over search_results['organic'][:num_results]
FormatResults(organic) ==
    Join(<<Blank("\n", 1)>>,
         [i \in 1..(IF Len(organic) < NumResults THEN Len(organic) ELSE NumResults)
             |-> FormatResult(i, organic[i])])

\* lines 34-56: the request and what is made of its reply
SearchWithKey(http) ==
    IF http.status = "error"
    THEN [text |-> SearchError, posts |-> 1, raised |-> FALSE]
    ELSE IF http.has_organic /\ http.organic # <<>>
    THEN [text |-> FormatResults(http.organic), posts |-> 1, raised |-> FALSE]
    ELSE [text |-> NoWebInfo, posts |-> 1, raised |-> FALSE]

\* the search without the test of lines 23-25
PerformWebSearch_NoKeyCheck(key, http) == SearchWithKey(http)

\* the search without the except clause of lines 54-56
PerformWebSearch_NoExcept(key, http) ==
    IF key = "" THEN [text |-> NotConfigured, posts |-> 0, raised |-> FALSE]
    ELSE IF http.status = "error"
    THEN [text |-> EmptyText, posts |-> 1, raised |-> TRUE]
    ELSE SearchWithKey(http)

\* perform_web_search(query): the text returned, the POST requests made, and
\* whether an exception left the function
PerformWebSearch(key, http) ==
    IF key = "" THEN [text |-> NotConfigured, posts |-> 0, raised |-> FALSE]
    ELSE SearchWithKey(http)

\* the strings perform_web_search returns in place of results
IsSentinel(text) == text \in {NotConfigured, NoWebInfo, SearchError}

---------------------------------------------------------------------------
(* utils/rag_utils.py *)

\* The values Python's None stands for, one per type
NoneIndex == [ok |-> FALSE, corpus |-> "None", docs |-> <<>>]
NoChunks == <<>>

Abs(x) == IF x < 0 THEN -x ELSE x

\* L2 distance between a query embedding and a stored one
Distance(qv, vec) == Abs(qv - vec)

\* the position among docs, outside taken, that is nearest to qv
Nearest(qv, docs, taken) ==
    CHOOSE i \in DOMAIN docs \ taken :
        \A j \in DOMAIN docs \ taken :
            \/ Distance(qv, docs[i].vec) < Distance(qv, docs[j].vec)
            \/ Distance(qv, docs[i].vec) = Distance(qv, docs[j].vec) /\ i <= j

RECURSIVE SearchFrom(_, _, _, _)
\* the k nearest of docs outside taken, nearest first
SearchFrom(qv, docs, k, taken) ==
    IF k = 0 \/ DOMAIN docs \ taken = {} THEN <<>>
    ELSE LET i == Nearest(qv, docs, taken)
         IN <<docs[i]>> \o SearchFrom(qv, docs, k - 1, taken \cup {i})

\* faiss_index.similarity_search_with_score(query, k)
SimilaritySearch(index, qv, k) == SearchFrom(qv, index.docs, k, {})

NumChunks == 3

\* embeddings a prompt can have
QueryVecs == {0, 3}

\* create_vector_store(document_chunks, embeddings_model): the index, or None
CreateVectorStore(corpus, chunks, emb_model, faiss_ok) ==
    IF chunks = <<>> THEN NoneIndex
    ELSE IF emb_model = "None" \/ ~faiss_ok THEN NoneIndex
    ELSE [ok |-> TRUE, corpus |-> corpus, docs |-> chunks]

\* the first num_chunks entries of document_chunks, in the document's order
RetrieveRelevantInfo_FirstChunks(qv, index, chunks, search_ok) ==
    IF ~index.ok THEN EmptyText
    ELSE IF ~search_ok THEN EmptyText
    ELSE Join(<<Blank("\n\n", 2)>>,
              [i \in 1..(IF Len(chunks) < NumChunks THEN Len(chunks) ELSE NumChunks)
                  |-> chunks[i].text])

\* retrieve_relevant_info(query, faiss_index, document_chunks, embeddings_model)
RetrieveRelevantInfo(qv, index, chunks, search_ok) ==
    IF ~index.ok THEN EmptyText
    ELSE IF ~search_ok THEN EmptyText
    ELSE Join(<<Blank("\n\n", 2)>>,
              LET found == SimilaritySearch(index, qv, NumChunks)
              IN [i \in DOMAIN found |-> found[i].text])

---------------------------------------------------------------------------
(* utils/llm_generation.py *)

NotEnoughInfo == "I'm sorry, I don't have enough information to answer that question."
GenerationError == "I encountered an error while trying to generate a response: {e}"

Detailed == <<"d","e","t","a","i","l","e","d">>

\* the instruction chosen at llm_generation.py:38
PromptInstruction(mode) ==
    IF Lower(mode) = Detailed THEN "detailed" ELSE "concise"

\* model.generate_content(prompt) either raises, or returns a response whose
\* .text is a string, or one whose parts are joined
\* (a successful call is taken to return non-empty text)
LlmOutcomes == {"text", "parts", "error"}

\* response.text, or the joined parts
GeneratedText == "<text generated by the model>"

\* the synthesizer without the except clause of lines 60-62
GenerateAnswerFromContext_NoExcept(model, context, mode, outcome) ==
    IF model = "None" \/ ~Truthy(context)
    THEN [text |-> NotEnoughInfo, llm_calls |-> 0, failed |-> FALSE,
          raised |-> FALSE, instruction |-> "none"]
    ELSE IF outcome = "error"
    THEN [text |-> "", llm_calls |-> 1, failed |-> TRUE,
          raised |-> TRUE, instruction |-> PromptInstruction(mode)]
    ELSE [text |-> GeneratedText, llm_calls |-> 1, failed |-> FALSE,
          raised |-> FALSE, instruction |-> PromptInstruction(mode)]

\* the synthesizer with `if not model` alone at line 35
GenerateAnswerFromContext_ModelOnlyGuard(model, context, mode, outcome) ==
    IF model = "None"
    THEN [text |-> NotEnoughInfo, llm_calls |-> 0, failed |-> FALSE,
          raised |-> FALSE, instruction |-> "none"]
    ELSE IF outcome = "error"
    THEN [text |-> GenerationError, llm_calls |-> 1, failed |-> TRUE,
          raised |-> FALSE, instruction |-> PromptInstruction(mode)]
    ELSE [text |-> GeneratedText, llm_calls |-> 1, failed |-> FALSE,
          raised |-> FALSE, instruction |-> PromptInstruction(mode)]

\* the synthesizer with a second call after a failed one
GenerateAnswerFromContext_Retry(model, context, mode, outcome) ==
    IF model = "None" \/ ~Truthy(context)
    THEN [text |-> NotEnoughInfo, llm_calls |-> 0, failed |-> FALSE,
          raised |-> FALSE, instruction |-> "none"]
    ELSE IF outcome = "error"
    THEN [text |-> GenerationError, llm_calls |-> 2, failed |-> TRUE,
          raised |-> FALSE, instruction |-> PromptInstruction(mode)]
    ELSE [text |-> GeneratedText, llm_calls |-> 1, failed |-> FALSE,
          raised |-> FALSE, instruction |-> PromptInstruction(mode)]

\* generate_answer_from_context(model, query, context, response_mode):
\* the answer returned and the calls made to the generative model
GenerateAnswerFromContext(model, context, mode, outcome) ==
    IF model = "None" \/ ~Truthy(context)
    THEN [text |-> NotEnoughInfo, llm_calls |-> 0, failed |-> FALSE,
          raised |-> FALSE, instruction |-> "none"]
    ELSE IF outcome = "error"
    THEN [text |-> GenerationError, llm_calls |-> 1, failed |-> TRUE,
          raised |-> FALSE, instruction |-> PromptInstruction(mode)]
    ELSE [text |-> GeneratedText, llm_calls |-> 1, failed |-> FALSE,
          raised |-> FALSE, instruction |-> PromptInstruction(mode)]

---------------------------------------------------------------------------
(* app.py: one chat turn (lines 268-311) *)

NoWebResults == "Sorry, I couldn't find any relevant web search results for your query."
NoAnswerAnywhere == "Sorry, I couldn't find an answer in either the provided context or a web search."

MinContextLen == 50

IdleTurn ==
    [done |-> FALSE, prompt |-> <<>>, route |-> "none",
     used_index |-> NoneIndex, used_chunks |-> NoChunks,
     retrievals |-> 0, query_vec |-> 0, retrieval_failed |-> FALSE,
     retrieved |-> EmptyText,
     searches |-> 0, posts |-> 0, key |-> "", web_results |-> EmptyText,
     synth_calls |-> 0, synth_model |-> "None", synth_context |-> EmptyText,
     llm_calls |-> 0, llm_failed |-> FALSE, raised |-> FALSE,
     final_answer |-> ""]

\* app.py:277
CurrentIndex(up_index, index) == IF up_index.ok THEN up_index ELSE index

\* app.py:278
CurrentChunks(up_chunks, chunks) == IF up_chunks # <<>> THEN up_chunks ELSE chunks

\* the test without .strip()
LocalContextSufficient_NoStrip(context) ==
    Truthy(context) /\ TextLen(context) > MinContextLen

\* the test at app.py:297
LocalContextSufficient(context) ==
    Truthy(context) /\ TextLen(Strip(context)) > MinContextLen

\* the test at app.py:288 and app.py:304
WebResultsUsable(web_results) == Truthy(web_results)

\* The reply of an outside service is settled when the call is made: each
\* of the three operators below gives every result the call can have.

\* perform_web_search(prompt)
WebSearches(key) == {PerformWebSearch(key, http) : http \in HttpOutcomes}

\* generate_answer_from_context(llm_model, prompt, context, response_mode)
Generations(model, context, mode) ==
    {GenerateAnswerFromContext(model, context, mode, outcome) : outcome \in LlmOutcomes}

\* retrieve_relevant_info(prompt, index, chunks, embeddings_model): the
\* embedding the query gets, whether the search raised, the text returned
Retrievals(index, chunks) ==
    { [qv |-> qv, failed |-> index.ok /\ ~search_ok,
       text |-> RetrieveRelevantInfo(qv, index, chunks, search_ok)] :
        qv \in QueryVecs, search_ok \in BOOLEAN }

\* The turn ends by synthesizing from context.  A call that raises ends the
\* turn where it is made: raised is set and nothing after it runs.
Synthesize(t, model, context, mode) ==
    { [t EXCEPT !.synth_calls = 1, !.synth_model = model,
                !.synth_context = context, !.llm_calls = g.llm_calls,
                !.llm_failed = g.failed, !.raised = g.raised,
                !.final_answer = g.text] :
      g \in Generations(model, context, mode) }

\* the turn makes a web search
Searched(t, key) ==
    { [t EXCEPT !.searches = 1, !.posts = w.posts, !.key = key,
                !.web_results = w.text, !.raised = w.raised] :
      w \in WebSearches(key) }

\* app.py:286-291
WebFirstPath(t, mode, model, key) ==
    UNION { IF s.raised THEN {s}
            ELSE IF WebResultsUsable(s.web_results)
            THEN Synthesize(s, model, s.web_results, mode)
            ELSE {[s EXCEPT !.final_answer = NoWebResults]} :
            s \in Searched(t, key) }

\* app.py:301-307
WebFallback(t, mode, model, key) ==
    UNION { IF s.raised THEN {s}
            ELSE IF WebResultsUsable(s.web_results)
            THEN Synthesize(s, model, s.web_results, mode)
            ELSE {[s EXCEPT !.final_answer = NoAnswerAnywhere]} :
            s \in Searched(t, key) }

\* app.py:293-307
LocalFirstPath(t, mode, model, key) ==
    UNION { LET context == got.text
                r == [t EXCEPT !.retrievals = 1, !.query_vec = got.qv,
                               !.retrieval_failed = got.failed,
                               !.retrieved = context]
            IN IF LocalContextSufficient(context)
               THEN Synthesize(r, model, context, mode)
               ELSE WebFallback(r, mode, model, key) :
            got \in Retrievals(t.used_index, t.used_chunks) }

\* the body of `if prompt := st.chat_input(...)`, up to final_answer: every
\* way the turn can go
AnswerQuery(prompt, mode, index, chunks, model, key) ==
    LET t == [IdleTurn EXCEPT !.done = TRUE, !.prompt = prompt,
                              !.route = RouteOf[prompt],
                              !.used_index = index, !.used_chunks = chunks]
    IN IF t.route = "WebFirst"
       THEN WebFirstPath(t, mode, model, key)
       ELSE LocalFirstPath(t, mode, model, key)

---------------------------------------------------------------------------
(* Documents, files and prompts the session is exercised with *)

Pad(k) == IF k = 0 THEN <<>> ELSE <<Blank(" ", k)>>

\* a chunk whose text is n characters between lead and trail blanks
Chunk(source, id, n, lead, trail, vec) ==
    [source |-> source, vec |-> vec,
     text |-> Pad(lead) \o Lit(id, n) \o Pad(trail)]

\* chunk lists load_and_chunk_document can produce from the knowledge base
KnowledgeBases ==
    { <<>>,
      << Chunk("kb", "kb-a", 10, 0, 0, 0), Chunk("kb", "kb-b", 20, 0, 1, 1),
         Chunk("kb", "kb-c", 16, 0, 0, 2), Chunk("kb", "kb-d", 60, 0, 0, 3) >>,
      << Chunk("kb", "kb-e", MinContextLen, 1, 1, 0) >>,
      << Chunk("kb", "kb-f", MinContextLen + 1, 1, 1, 0) >> }

NoFile == [name |-> "None", type |-> "None", hash |-> "None", chunks |-> <<>>]

Files ==
    { [name |-> "notes.txt", type |-> "text/plain", hash |-> "h-notes",
       chunks |-> << Chunk("uploaded_file", "up-a", MinContextLen + 1, 1, 1, 0) >>],
      [name |-> "short.pdf", type |-> "application/pdf", hash |-> "h-short",
       chunks |-> << Chunk("uploaded_file", "up-b", MinContextLen, 1, 1, 0) >>],
      [name |-> "empty.docx", type |-> "wordprocessingml.document", hash |-> "h-empty",
       chunks |-> <<>>] }

Concise == <<"C","o","n","c","i","s","e">>
DetailedMode == <<"D","e","t","a","i","l","e","d">>
ResponseModes == {Concise, DetailedMode}


---------------------------------------------------------------------------
(* app.py: session state and the script's runs *)

\* initialize_llm()
InitializeLlm(gemini_key, genai_ok) ==
    IF gemini_key = "" THEN "None"
    ELSE IF ~genai_ok THEN "None"
    ELSE "gemini"

\* process_uploaded_file(uploaded_file_obj, embeddings_model), when it returns
ProcessUploadedFile(file, emb_model, extract_ok, faiss_ok) ==
    IF ~extract_ok THEN [index |-> NoneIndex, chunks |-> NoChunks]
    ELSE IF file.chunks = <<>> THEN [index |-> NoneIndex, chunks |-> NoChunks]
    ELSE [index |-> CreateVectorStore(file.name, file.chunks, emb_model, faiss_ok),
          chunks |-> file.chunks]

UploadedNow ==
    [index |-> uploaded_faiss_index, chunks |-> uploaded_document_chunks,
     name |-> uploaded_file_name, hash |-> uploaded_file_hash]

NothingUploaded ==
    [index |-> NoneIndex, chunks |-> NoChunks, name |-> "None", hash |-> "None"]

\* the assignments of lines 197-199 made without the test of line 196
StoreUpload_AsReturned(u, file, r) ==
    [index |-> r.index, chunks |-> r.chunks, name |-> file.name, hash |-> file.hash]

\* app.py:196-203
StoreUpload(u, file, r) ==
    IF r.index.ok /\ r.chunks # <<>>
    THEN [index |-> r.index, chunks |-> r.chunks, name |-> file.name,
          hash |-> file.hash]
    ELSE [NothingUploaded EXCEPT !.hash = file.hash]

\* app.py:188-204: what the uploader section leaves in the session.  A
\* text file that does not decode raises at line 105, after the hash is set.
UploadSection(u, file, emb_model, extract_ok, faiss_ok) ==
    IF file = NoFile THEN u
    ELSE IF u.hash = file.hash THEN u
    ELSE IF file.type = "text/plain" /\ ~extract_ok
    THEN [u EXCEPT !.hash = file.hash]
    ELSE StoreUpload(u, file, ProcessUploadedFile(file, emb_model, extract_ok, faiss_ok))

SetUploaded(u) ==
    /\ uploaded_faiss_index' = u.index
    /\ uploaded_document_chunks' = u.chunks
    /\ uploaded_file_name' = u.name
    /\ uploaded_file_hash' = u.hash

\* the test at app.py:190 is false: the section changes nothing in this run
UploadSettled == widget_file = NoFile \/ uploaded_file_hash = widget_file.hash

\* the test with the stored index's value in place of the key's presence
SetupDue_WhenIndexIsNone == ~faiss_index.ok

\* app.py:54, `"faiss_index" not in st.session_state`: the key is set at
\* line 55 of the session's first script run and never deleted
SetupDue == phase = "new"

Init ==
    /\ secrets \in SecretsConfigs
    /\ startup = "none"
    /\ phase = "new"
    /\ faiss_index = NoneIndex
    /\ document_chunks = NoChunks
    /\ embeddings_model = "None"
    /\ llm_model = "None"
    /\ serper_api_key = "None"
    /\ uploaded_faiss_index = NoneIndex
    /\ uploaded_document_chunks = NoChunks
    /\ uploaded_file_name = "None"
    /\ uploaded_file_hash = "None"
    /\ messages = <<>>
    /\ current_page = "None"
    /\ widget_file = NoFile
    /\ setup_runs = 0
    /\ turn = IdleTurn

\* app.py:54-95, first run of the script in a session
FirstRun(gemini_key, genai_ok, kb_exists, kb_chunks, faiss_ok) ==
    /\ SetupDue
    /\ setup_runs' = setup_runs + 1
    /\ uploaded_faiss_index' = NoneIndex
    /\ uploaded_document_chunks' = NoChunks
    /\ uploaded_file_name' = "None"
    /\ LET llm == InitializeLlm(gemini_key, genai_ok)
       IN IF llm = "None" \/ ~kb_exists
          THEN \* st.stop() at line 75 or 80: nothing is assigned at 87-89
               /\ startup' = IF llm = "None" THEN "llm_failed" ELSE "kb_missing"
               /\ phase' = "halted"
               /\ UNCHANGED <<faiss_index, document_chunks, embeddings_model,
                              llm_model, serper_api_key, messages, current_page>>
          ELSE /\ startup' = "ok"
               /\ phase' = "running"
               /\ embeddings_model' = "embedder"
               /\ llm_model' = llm
               /\ faiss_index' = CreateVectorStore("kb", kb_chunks, "embedder", faiss_ok)
               /\ document_chunks' = kb_chunks
               /\ serper_api_key' = GetSerperApiKey(secrets)
               /\ messages' = <<>>
               /\ current_page' = "home"
    /\ turn' = IdleTurn
    /\ UNCHANGED <<secrets, uploaded_file_hash, widget_file>>

\* a later run of a session whose first run was stopped: lines 54-89 are
\* skipped, lines 92-95 and the home page run
RerunAfterStop ==
    /\ phase = "halted"
    /\ phase' = "running"
    /\ messages' = <<>>
    /\ current_page' = "home"
    /\ UNCHANGED <<secrets, startup, faiss_index, document_chunks, embeddings_model,
                   llm_model, serper_api_key, uploaded_faiss_index,
                   uploaded_document_chunks, uploaded_file_name,
                   uploaded_file_hash, widget_file, setup_runs>>
    /\ turn' = IdleTurn

Pages == {"home", "chat", "about_creator"}

\* navigate_to(page_name); the uploader widget exists on the chat page only
Navigate(page) ==
    /\ phase = "running"
    /\ page # current_page
    /\ current_page' = page
    /\ widget_file' = NoFile
    /\ UNCHANGED <<secrets, startup, phase, faiss_index, document_chunks,
                   embeddings_model, llm_model, serper_api_key,
                   uploaded_faiss_index, uploaded_document_chunks,
                   uploaded_file_name, uploaded_file_hash, messages,
                   setup_runs>>
    /\ turn' = IdleTurn

\* the user puts a file in the uploader: app.py:182-204 and the rerun
SelectFile(file, extract_ok, faiss_ok) ==
    /\ phase = "running" /\ current_page = "chat"
    /\ file # widget_file
    /\ widget_file' = file
    /\ SetUploaded(UploadSection(UploadedNow, file, embeddings_model, extract_ok, faiss_ok))
    /\ UNCHANGED <<secrets, startup, phase, faiss_index, document_chunks,
                   embeddings_model, llm_model, serper_api_key, messages,
                   current_page, setup_runs>>
    /\ turn' = IdleTurn

\* the user removes the file from the uploader: app.py:208-211
RemoveFile ==
    /\ phase = "running" /\ current_page = "chat"
    /\ widget_file # NoFile
    /\ widget_file' = NoFile
    /\ UNCHANGED <<secrets, startup, phase, faiss_index, document_chunks,
                   embeddings_model, llm_model, serper_api_key,
                   uploaded_faiss_index, uploaded_document_chunks,
                   uploaded_file_name, uploaded_file_hash, messages,
                   current_page, setup_runs>>
    /\ turn' = IdleTurn

\* "Clear Uploaded Data": app.py:213-219, then the rerun it asks for, whose
\* uploader section (188-204) sees the file the widget still holds
ClearUploadedData(extract_ok, faiss_ok) ==
    /\ phase = "running" /\ current_page = "chat"
    /\ UploadSettled
    /\ uploaded_faiss_index.ok
    /\ SetUploaded(UploadSection(NothingUploaded, widget_file, embeddings_model,
                                 extract_ok, faiss_ok))
    /\ UNCHANGED <<secrets, startup, phase, faiss_index, document_chunks,
                   embeddings_model, llm_model, serper_api_key, messages,
                   current_page, widget_file, setup_runs>>
    /\ turn' = IdleTurn

\* "Clear Chat History": app.py:237-239
ClearChatHistory ==
    /\ phase = "running" /\ current_page = "chat"
    /\ UploadSettled
    /\ messages' = <<>>
    /\ UNCHANGED <<secrets, startup, phase, faiss_index, document_chunks,
                   embeddings_model, llm_model, serper_api_key,
                   uploaded_faiss_index, uploaded_document_chunks,
                   uploaded_file_name, uploaded_file_hash, current_page,
                   widget_file, setup_runs>>
    /\ turn' = IdleTurn

\* a prompt typed in the chat input: app.py:268-311
ChatTurn(prompt, mode) ==
    /\ phase = "running" /\ current_page = "chat"
    /\ UploadSettled
    /\ Len(messages) + 2 <= MaxMessages
    /\ turn' \in AnswerQuery(prompt, mode,
                             CurrentIndex(uploaded_faiss_index, faiss_index),
                             CurrentChunks(uploaded_document_chunks, document_chunks),
                             llm_model, GetSerperApiKey(secrets))
    /\ messages' =
         IF turn'.raised
         THEN \* the exception ends the run before line 311
              Append(messages, [role |-> "user", content |-> prompt])
         ELSE messages \o << [role |-> "user", content |-> prompt],
                             [role |-> "assistant", content |-> turn'.final_answer] >>
    /\ UNCHANGED <<secrets, startup, phase, faiss_index, document_chunks,
                   embeddings_model, llm_model, serper_api_key,
                   uploaded_faiss_index, uploaded_document_chunks,
                   uploaded_file_name, uploaded_file_hash, current_page,
                   widget_file, setup_runs>>

\* a prompt typed in the chat input whose script run does not reach line
\* 311: the user's next interaction arrives while the turn is being
\* answered, and the run is abandoned at its next st.* call (272-309) so
\* that the script can rerun.  Line 269 has already been executed.
InterruptedTurn(prompt) ==
    /\ phase = "running" /\ current_page = "chat"
    /\ UploadSettled
    /\ Len(messages) + 1 <= MaxMessages
    /\ messages' = Append(messages, [role |-> "user", content |-> prompt])
    /\ UNCHANGED <<secrets, startup, phase, faiss_index, document_chunks,
                   embeddings_model, llm_model, serper_api_key,
                   uploaded_faiss_index, uploaded_document_chunks,
                   uploaded_file_name, uploaded_file_hash, current_page,
                   widget_file, setup_runs>>
    /\ turn' = IdleTurn

Next ==
    \/ \E gemini_key \in {"", "gemini-key"}, genai_ok \in BOOLEAN,
          kb_exists \in BOOLEAN, kb_chunks \in KnowledgeBases, faiss_ok \in BOOLEAN :
          FirstRun(gemini_key, genai_ok, kb_exists, kb_chunks, faiss_ok)
    \/ RerunAfterStop
    \/ \E page \in Pages : Navigate(page)
    \/ \E file \in Files, extract_ok \in BOOLEAN, faiss_ok \in BOOLEAN :
          SelectFile(file, extract_ok, faiss_ok)
    \/ RemoveFile
    \/ \E extract_ok \in BOOLEAN, faiss_ok \in BOOLEAN :
          ClearUploadedData(extract_ok, faiss_ok)
    \/ ClearChatHistory
    \/ \E prompt \in Prompts, mode \in ResponseModes : ChatTurn(prompt, mode)
    \/ \E prompt \in Prompts : InterruptedTurn(prompt)

Spec == Init /\ [][Next]_vars

\* whenever the widget holds a file, its hash is the one the session recorded
UploadSettledAlways == phase = "running" => UploadSettled

---------------------------------------------------------------------------
(* The routing rule on its own: SpecRouter tries one query on a session     *)
(* with no index and no model                                               *)

InitRouter ==
    /\ secrets \in SecretsConfigs
    /\ startup = "llm_failed"
    /\ phase = "running"
    /\ faiss_index = NoneIndex
    /\ document_chunks = NoChunks
    /\ embeddings_model = "None"
    /\ llm_model = "None"
    /\ serper_api_key = "None"
    /\ uploaded_faiss_index = NoneIndex
    /\ uploaded_document_chunks = NoChunks
    /\ uploaded_file_name = "None"
    /\ uploaded_file_hash = "None"
    /\ messages = <<>>
    /\ current_page = "chat"
    /\ widget_file = NoFile
    /\ setup_runs = 1
    /\ turn \in {[IdleTurn EXCEPT !.prompt = p] : p \in RoutePrompts}

\* app.py:277-307 for the query drawn
RouteQuery(mode) ==
    /\ ~turn.done
    /\ turn' \in AnswerQuery(turn.prompt, mode,
                             CurrentIndex(uploaded_faiss_index, faiss_index),
                             CurrentChunks(uploaded_document_chunks, document_chunks),
                             llm_model, GetSerperApiKey(secrets))
    /\ UNCHANGED <<secrets, startup, phase, faiss_index, document_chunks,
                   embeddings_model, llm_model, serper_api_key,
                   uploaded_faiss_index, uploaded_document_chunks,
                   uploaded_file_name, uploaded_file_hash, messages,
                   current_page, widget_file, setup_runs>>

NextRouter == \E mode \in ResponseModes : RouteQuery(mode)

SpecRouter == InitRouter /\ [][NextRouter]_vars

---------------------------------------------------------------------------
(* generate_answer_from_context on its own: SpecSynth calls it once on a    *)
(* model and a context drawn at the start                                   *)

SynthContexts ==
    { EmptyText, <<Blank(" ", 1)>>, NotConfigured, NoWebInfo, SearchError }
    \cup { FormatResults([j \in 1..m |-> OrganicResult(j)]) : m \in 1..MaxOrganic }
    \cup { Pad(lead) \o Lit("context", n) \o Pad(trail) :
             lead \in 0..1, trail \in 0..1,
             n \in {1, MinContextLen - 1, MinContextLen, MinContextLen + 1} }

InitSynth ==
    /\ secrets = [secret |-> "absent", env |-> "absent"]
    /\ startup = "none"
    /\ phase = "new"
    /\ faiss_index = NoneIndex
    /\ document_chunks = NoChunks
    /\ embeddings_model = "None"
    /\ llm_model = "None"
    /\ serper_api_key = "None"
    /\ uploaded_faiss_index = NoneIndex
    /\ uploaded_document_chunks = NoChunks
    /\ uploaded_file_name = "None"
    /\ uploaded_file_hash = "None"
    /\ messages = <<>>
    /\ current_page = "None"
    /\ widget_file = NoFile
    /\ setup_runs = 0
    /\ turn \in {[IdleTurn EXCEPT !.synth_model = model, !.synth_context = context] :
                    model \in {"None", "gemini"}, context \in SynthContexts}

\* one call generate_answer_from_context(model, query, context, mode)
CallSynthesizer(mode, outcome) ==
    /\ ~turn.done
    /\ LET g == GenerateAnswerFromContext(turn.synth_model, turn.synth_context,
                                          mode, outcome)
       IN turn' = [turn EXCEPT !.done = TRUE, !.synth_calls = 1,
                               !.llm_calls = g.llm_calls, !.llm_failed = g.failed,
                               !.raised = g.raised, !.final_answer = g.text]
    /\ UNCHANGED <<secrets, startup, phase, faiss_index, document_chunks,
                   embeddings_model, llm_model, serper_api_key,
                   uploaded_faiss_index, uploaded_document_chunks,
                   uploaded_file_name, uploaded_file_hash, messages,
                   current_page, widget_file, setup_runs>>

NextSynth ==
    \E mode \in ResponseModes, outcome \in LlmOutcomes : CallSynthesizer(mode, outcome)

SpecSynth == InitSynth /\ [][NextSynth]_vars

---------------------------------------------------------------------------
(* retrieve_relevant_info on its own: SpecRetrieve calls it once on an      *)
(* index, a chunk list and a query embedding drawn at the start             *)

\* embeddings of stored chunks and of queries
Embeddings == 0..3

\* chunk lists of up to MaxCorpus chunks, told apart by their lengths
Corpora ==
    UNION { { [i \in 1..n |-> Chunk("kb", "chunk", 10 * i, 0, 0, vecs[i])] :
                vecs \in [1..n -> Embeddings] } : n \in 0..MaxCorpus }

\* what create_vector_store made of the corpus, and the document_chunks
\* argument passed along with it
RetrieveInputs ==
    UNION { { [index |-> CreateVectorStore("kb", corpus, "embedder", faiss_ok),
               chunks |-> chunks, qv |-> qv] :
                faiss_ok \in BOOLEAN, chunks \in {corpus, NoChunks},
                qv \in Embeddings } : corpus \in Corpora }

InitRetrieve ==
    /\ secrets = [secret |-> "absent", env |-> "absent"]
    /\ startup = "none"
    /\ phase = "new"
    /\ faiss_index = NoneIndex
    /\ document_chunks = NoChunks
    /\ embeddings_model = "None"
    /\ llm_model = "None"
    /\ serper_api_key = "None"
    /\ uploaded_faiss_index = NoneIndex
    /\ uploaded_document_chunks = NoChunks
    /\ uploaded_file_name = "None"
    /\ uploaded_file_hash = "None"
    /\ messages = <<>>
    /\ current_page = "None"
    /\ widget_file = NoFile
    /\ setup_runs = 0
    /\ turn \in {[IdleTurn EXCEPT !.used_index = inp.index, !.used_chunks = inp.chunks,
                                   !.query_vec = inp.qv] : inp \in RetrieveInputs}

\* one call retrieve_relevant_info(query, index, chunks, embeddings_model)
CallRetriever(search_ok) ==
    /\ ~turn.done
    /\ turn' = [turn EXCEPT
                  !.done = TRUE, !.retrievals = 1,
                  !.retrieval_failed = turn.used_index.ok /\ ~search_ok,
                  !.retrieved = RetrieveRelevantInfo(turn.query_vec, turn.used_index,
                                                     turn.used_chunks, search_ok)]
    /\ UNCHANGED <<secrets, startup, phase, faiss_index, document_chunks,
                   embeddings_model, llm_model, serper_api_key,
                   uploaded_faiss_index, uploaded_document_chunks,
                   uploaded_file_name, uploaded_file_hash, messages,
                   current_page, widget_file, setup_runs>>

NextRetrieve == \E search_ok \in BOOLEAN : CallRetriever(search_ok)

SpecRetrieve == InitRetrieve /\ [][NextRetrieve]_vars

---------------------------------------------------------------------------
(* The routing rule, checked under SpecRouter *)

\* the claim's condition on a query, spelled out on its characters
MentionsAny(prompt, keywords) ==
    \E kw \in keywords :
        \E at \in 1..Len(prompt) :
            /\ at + Len(kw) - 1 <= Len(prompt)
            /\ \A j \in 1..Len(kw) : LowerChar[prompt[at + j - 1]] = kw[j]

\* C1: the router takes the WebFirst path exactly when the lower-cased query
\* contains a search-intent keyword and no domain keyword, and the
\* LocalFirst path in every other case.
C1_RouterRule ==
    turn.done =>
        /\ (turn.route = "WebFirst") <=>
              (MentionsAny(turn.prompt, SearchKeywords)
                 /\ ~MentionsAny(turn.prompt, DomainKeywords))
        /\ turn.route \in {"WebFirst", "LocalFirst"}
        /\ turn.route = "WebFirst" => (turn.retrievals = 0 /\ turn.searches = 1)
        /\ turn.route = "LocalFirst" => turn.retrievals = 1
        /\ turn.prompt = WhatIsPhishing => turn.route = "LocalFirst"
        /\ turn.prompt = WhoIsThePresident => turn.route = "WebFirst"

\* a query with a search-intent keyword kept local by an upper-case domain
\* keyword
C1_Witness ==
    /\ turn.done
    /\ turn.prompt = WhatIsBNPL
    /\ turn.route = "LocalFirst" /\ turn.retrievals = 1

\* "who is the president" went to the web first
C1_WitnessWebFirst ==
    /\ turn.done /\ turn.prompt = WhoIsThePresident
    /\ turn.route = "WebFirst" /\ turn.searches = 1 /\ turn.retrievals = 0

---------------------------------------------------------------------------
(* The synthesizer, checked under SpecSynth *)

\* C6: with no model or an empty context the synthesizer returns the fixed
\* "not enough information" string and never calls the model.
C6_NoModelOrContextNoCall ==
    (turn.done /\ (turn.synth_model = "None" \/ turn.synth_context = EmptyText)) =>
        /\ turn.final_answer = NotEnoughInfo
        /\ turn.llm_calls = 0
        /\ ~turn.raised

\* a model is present and the context is empty
C6_Witness ==
    /\ turn.done /\ turn.synth_calls = 1
    /\ turn.synth_model = "gemini" /\ turn.synth_context = EmptyText
    /\ turn.final_answer = NotEnoughInfo

\* C7: with a model and a non-empty context the synthesizer calls the model
\* exactly once, and a failing call comes back as the error string, not as
\* an exception.
C7_OneCallErrorsReturned ==
    (turn.done /\ turn.synth_model # "None" /\ turn.synth_context # EmptyText) =>
        /\ turn.llm_calls = 1
        /\ ~turn.raised
        /\ turn.llm_failed => turn.final_answer = GenerationError
        /\ ~turn.llm_failed => turn.final_answer = GeneratedText

\* the one call failed
C7_Witness ==
    /\ turn.done /\ turn.synth_model = "gemini"
    /\ turn.synth_context = NoWebInfo
    /\ turn.llm_failed /\ turn.llm_calls = 1
    /\ turn.final_answer = GenerationError

---------------------------------------------------------------------------
(* Properties of the chat turn, checked under Spec *)

WebFirstTaken == turn.done /\ turn.route = "WebFirst"
LocalFirstTaken == turn.done /\ turn.route = "LocalFirst"

\* C2: on the WebFirst path, a sentinel from the web search ends the turn
\* with the fixed "no web results" message and without a call to the
\* synthesizer.
C2_WebFirstSentinelIsTerminal ==
    (WebFirstTaken /\ IsSentinel(turn.web_results)) =>
        (turn.final_answer = NoWebResults /\ turn.synth_calls = 0)

\* C3: on the LocalFirst path a web search is made exactly when the
\* retrieved context is empty or at most 50 characters long once trimmed;
\* a longer context is synthesized from, with no web search.
C3_FallbackIffContextShort ==
    LocalFirstTaken =>
        /\ turn.retrievals = 1
        /\ (turn.searches = 1) <=>
              (turn.retrieved = EmptyText \/ TextLen(Strip(turn.retrieved)) <= 50)
        /\ TextLen(Strip(turn.retrieved)) > 50 =>
              /\ turn.searches = 0
              /\ turn.synth_calls = 1
              /\ turn.synth_context = turn.retrieved

\* a context longer than 50 characters whose trimmed length is 50 fell back
C3_Witness ==
    /\ LocalFirstTaken
    /\ TextLen(turn.retrieved) > 50
    /\ TextLen(Strip(turn.retrieved)) = 50
    /\ turn.searches = 1

\* C4: on the LocalFirst path, when the fallback web search returns a
\* sentinel the turn ends with the fixed "neither context nor web search"
\* message and without a call to the synthesizer.
C4_FallbackSentinelIsTerminal ==
    (LocalFirstTaken /\ turn.searches = 1 /\ IsSentinel(turn.web_results)) =>
        (turn.final_answer = NoAnswerAnywhere /\ turn.synth_calls = 0)

\* C5: every chat turn ends with a non-empty answer, appended to the
\* transcript, and no exception leaves the turn.
C5_TurnAlwaysAnswers ==
    turn.done =>
        /\ ~turn.raised
        /\ turn.final_answer # ""
        /\ messages # <<>>
        /\ messages[Len(messages)] =
              [role |-> "assistant", content |-> turn.final_answer]

\* index absent, search key missing and model absent in one turn
C5_Witness ==
    /\ turn.done
    /\ ~turn.used_index.ok
    /\ turn.searches = 1 /\ turn.key = ""
    /\ turn.synth_calls = 1 /\ turn.synth_model = "None"
    /\ turn.final_answer # ""

\* an HTTP failure followed by a failing model call
C5_WitnessFailures ==
    /\ turn.done
    /\ turn.web_results = SearchError
    /\ turn.llm_failed
    /\ turn.final_answer = GenerationError

\* C8: the index and the chunk list a query uses come from one corpus: the
\* uploaded one when an uploaded index is present, the default one
\* otherwise; and the session never holds an uploaded index without its
\* chunks or uploaded chunks without their index.
C8_IndexAndChunksPaired ==
    /\ uploaded_faiss_index.ok <=> uploaded_document_chunks # <<>>
    /\ uploaded_faiss_index.ok => uploaded_document_chunks = uploaded_faiss_index.docs
    /\ faiss_index.ok => document_chunks = faiss_index.docs
    /\ turn.done =>
          IF uploaded_faiss_index.ok
          THEN /\ turn.used_index = uploaded_faiss_index
               /\ turn.used_chunks = uploaded_document_chunks
          ELSE /\ turn.used_index = faiss_index
               /\ turn.used_chunks = document_chunks

\* a query made after an upload that failed, with the default corpus in use
C8_Witness ==
    /\ turn.done
    /\ uploaded_file_hash # "None" /\ ~uploaded_faiss_index.ok
    /\ turn.used_index.ok /\ turn.used_index.corpus = "kb"
    /\ turn.used_chunks = turn.used_index.docs

\* a query answered from an uploaded document
C8_WitnessUploaded ==
    /\ turn.done
    /\ faiss_index.ok
    /\ turn.used_index.ok /\ turn.used_index.corpus = "notes.txt"

C9_WitnessConfigured ==
    /\ turn.done /\ turn.searches = 1
    /\ turn.key = "env-key" /\ turn.posts = 1

\* C10: after a startup that found no knowledge-base file, a query whose web
\* search returns real results is answered by the model from those results.
C10_WebOnlyAfterMissingKnowledgeBase ==
    (turn.done /\ startup = "kb_missing" /\ turn.searches = 1
        /\ ~IsSentinel(turn.web_results)) =>
        /\ turn.synth_calls = 1
        /\ turn.synth_context = turn.web_results
        /\ turn.llm_calls = 1
        /\ turn.final_answer # NotEnoughInfo

---------------------------------------------------------------------------
(* Retrieval, checked under SpecRetrieve *)

Min(a, b) == IF a < b THEN a ELSE b

\* the ways of picking n of the stored chunks, nearest to qv first: no chunk
\* twice, distances never decreasing, nothing left out that is nearer than
\* a chunk picked
NearestPicks(qv, docs, n) ==
    { pick \in [1..n -> DOMAIN docs] :
        /\ \A i, j \in 1..n : i # j => pick[i] # pick[j]
        /\ \A i, j \in 1..n :
              i < j => Distance(qv, docs[pick[i]].vec) <= Distance(qv, docs[pick[j]].vec)
        /\ \A i \in 1..n : \A out \in DOMAIN docs \ {pick[j] : j \in 1..n} :
              Distance(qv, docs[pick[i]].vec) <= Distance(qv, docs[out].vec) }

\* C12: retrieve_relevant_info returns the empty string when the index is
\* absent or the search fails; otherwise it returns the texts of the
\* min(3, corpus size) chunks nearest to the query, nearest first, joined by
\* a double newline, whatever chunk list is passed along.
C12_RetrieveNearestJoined ==
    turn.done =>
        IF ~turn.used_index.ok \/ turn.retrieval_failed
        THEN turn.retrieved = EmptyText
        ELSE LET docs == turn.used_index.docs
                 n == Min(3, Len(docs))
             IN /\ \E pick \in NearestPicks(turn.query_vec, docs, n) :
                      turn.retrieved =
                          Join(<<Blank("\n\n", 2)>>, [i \in 1..n |-> docs[pick[i]].text])
                /\ TextLen(turn.retrieved) >= 10 * n + 2 * (n - 1)

\* four chunks stored, the three nearest returned in an order that is not
\* the document's, with no chunk list passed
C12_Witness ==
    /\ turn.done /\ turn.used_index.ok /\ ~turn.retrieval_failed
    /\ Len(turn.used_index.docs) = 4
    /\ turn.used_chunks = NoChunks
    /\ turn.query_vec = 3
    /\ \A i \in 1..4 : turn.used_index.docs[i].vec = i - 1
    /\ turn.retrieved =
          Join(<<Blank("\n\n", 2)>>,
               <<turn.used_index.docs[4].text, turn.used_index.docs[3].text,
                 turn.used_index.docs[2].text>>)

\* a corpus of two chunks gives two texts
C12_WitnessSmallCorpus ==
    /\ turn.done /\ turn.used_index.ok /\ ~turn.retrieval_failed
    /\ Len(turn.used_index.docs) = 2
    /\ TextLen(turn.retrieved) = 10 + 2 + 20

\* the search raised and the empty string came back
C12_WitnessFailed ==
    /\ turn.done /\ turn.used_index.ok /\ turn.retrieval_failed
    /\ turn.retrieved = EmptyText

---------------------------------------------------------------------------
(* Properties of the session, checked under Spec *)

\* C11: across the script reruns of one session (navigations, uploads,
\* clears, chat turns) setup_backend is entered exactly once: by the first
\* run, and by no later one.
C11_SetupRunsOnce ==
    /\ phase = "new" => setup_runs = 0
    /\ phase # "new" => setup_runs = 1

\* a query made after an upload in a session whose setup left no default
\* index: many reruns, one setup
C11_Witness ==
    /\ phase = "running" /\ setup_runs = 1
    /\ ~faiss_index.ok
    /\ uploaded_faiss_index.ok
    /\ turn.done

\* the step is a press of "Clear Uploaded Data"
ClearPressed == \E extract_ok \in BOOLEAN, faiss_ok \in BOOLEAN :
                    ClearUploadedData(extract_ok, faiss_ok)

\* C13: a press of "Clear Uploaded Data" leaves the uploaded index, chunks,
\* file name and file hash all cleared, also when the uploader widget still
\* holds the file: the rerun that follows does not index it again.
C13_ClearRevertsToDefault ==
    [][ClearPressed =>
          /\ ~uploaded_faiss_index'.ok
          /\ uploaded_document_chunks' = NoChunks
          /\ uploaded_file_name' = "None"
          /\ uploaded_file_hash' = "None"]_vars

\* C14: at every point of a session the transcript has even length and
\* alternates user, assistant, user, assistant, ...
C14_TranscriptAlternates ==
    /\ Len(messages) % 2 = 0
    /\ \A i \in DOMAIN messages :
          messages[i].role = IF i % 2 = 1 THEN "user" ELSE "assistant"

============================================================================
